---- MODULE Spec2Model ----
(***************************************************************************)
(* Model of the PCB component placer (placement_solver.py) and of the      *)
(* assignment's checker (Test_placement_solver_ver2.py).                   *)
(*                                                                         *)
(* Units.  The source computes with floats whose values are multiples of   *)
(* 0.5 (grid positions, sizes) or 0.25 (centres, zone corners).  Every     *)
(* length of the model is an integer number of quarter board units         *)
(* (Scale = 4), so x + w / 2.0 is exact as x + w \div 2 for the even       *)
(* values that occur.  Distances are compared by their squares             *)
(* (d <= R  <=>  d*d <= R*R for R >= 0), the centre of mass by the sum of  *)
(* the centres (|sum/n - c| <= R  <=>  |sum - n*c| <= n*R), with the       *)
(* rounding of sum/n on the circle itself as com_dist_le states it.        *)
(* Diagnostic strings of the result tuples are not modelled.               *)
(***************************************************************************)
EXTENDS Integers, Sequences, FiniteSets, TLC

Scale == 4

\* The value of a result variable before the call that sets it.
NotCalled == [called |-> FALSE]

\* ---------------------------------------------------------------------
\* State
\* ---------------------------------------------------------------------
VARIABLES
  given,   \* the placement handed to the validators
  vres,    \* what validate_full returned for it (NotCalled before the call)
  chk,     \* what validate_placement returned for it (NotCalled before the call)
  gin,     \* the arguments of a geometry primitive
  gout,    \* its return value (NotCalled before the call)
  pc,      \* find_solution: "start", "outer", "row", "done" ("idle": not running)
  base,    \* find_solution: the seated connectors (place_edge_components())
  keepout_zone,  \* find_solution: the zone precomputed from base's USB connector
  gi,      \* find_solution: index of the cell prioritized_positions yielded last
  cxr,     \* find_solution: cx of the crystal row the inner loop is at
  best,    \* find_solution: best candidate so far
  result,  \* find_solution: returned tuple (NotCalled before the return)
  expired, \* find_solution: a deadline check has found the timeout exceeded
  config,  \* the module constants a run is configured with
  accepted_count,  \* history: number of candidates that reached the scoring step
  first_scored     \* history: per score, the first candidate that reached it

vvars == <<given, vres, chk>>
gvars == <<gin, gout>>
hvars == <<accepted_count, first_scored>>
svars == <<pc, base, keepout_zone, gi, cxr, best, result, expired, config, hvars>>
vars == <<given, vres, chk, gin, gout, pc, base, keepout_zone, gi, cxr, best, result,
          expired, config, accepted_count, first_scored>>

\* Lines 39-44 as the file has them.
DefaultConfig ==
  [PROXIMITY_RADIUS |-> 10 * Scale,
   KEEPOUT_ZONE_DIMS |-> <<10 * Scale, 20 * Scale>>]

NoHistory == accepted_count = 0 /\ first_scored = {}

SearchIdle ==
  /\ pc = "idle" /\ base = NotCalled /\ keepout_zone = NotCalled
  /\ gi = 0 /\ cxr = 0 /\ best = NotCalled /\ result = NotCalled
  /\ expired = FALSE /\ config = DefaultConfig
  /\ NoHistory

\* ---------------------------------------------------------------------
\* Assignment constants
\* ---------------------------------------------------------------------
BOARD_DIMS == <<50 * Scale, 50 * Scale>>
PROXIMITY_RADIUS == config.PROXIMITY_RADIUS
CENTER_OF_MASS_RADIUS == 2 * Scale
KEEPOUT_ZONE_DIMS == config.KEEPOUT_ZONE_DIMS
GRID_STEP == 1 * Scale

USB == "USB_CONNECTOR"
MC == "MICROCONTROLLER"
XTAL == "CRYSTAL"
MB1 == "MIKROBUS_CONNECTOR_1"
MB2 == "MIKROBUS_CONNECTOR_2"

SIZES ==
  [n \in {USB, MC, XTAL, MB1, MB2} |->
     IF n \in {MB1, MB2} THEN <<5 * Scale, 15 * Scale>>
                         ELSE <<5 * Scale, 5 * Scale>>]

required_keys == {USB, MC, XTAL, MB1, MB2}

\* A component in board units.
Rect(x, y, w, h) == [x |-> x * Scale, y |-> y * Scale, w |-> w * Scale, h |-> h * Scale]

\* ---------------------------------------------------------------------
\* Geometry primitives
\* ---------------------------------------------------------------------
center_of(comp) == <<comp.x + comp.w \div 2, comp.y + comp.h \div 2>>

\* Square of distance(a, b).
distance_sq(a, b) == (a[1] - b[1]) * (a[1] - b[1]) + (a[2] - b[2]) * (a[2] - b[2])

bbox_overlap_onesided(a, b) ==
  ~ (a.x + a.w <= b.x \/ a.y + a.h <= b.y)

bbox_overlap(a, b) ==
  ~ (a.x + a.w <= b.x \/ b.x + b.w <= a.x \/
     a.y + a.h <= b.y \/ b.y + b.h <= a.y)

in_bounds(comp) ==
  /\ comp.x >= 0 /\ comp.y >= 0
  /\ comp.x + comp.w <= BOARD_DIMS[1]
  /\ comp.y + comp.h <= BOARD_DIMS[2]

ccw(A, B, C) == (C[2] - A[2]) * (B[1] - A[1]) > (B[2] - A[2]) * (C[1] - A[1])

intersect(A, B, C, D) == ccw(A, C, D) # ccw(B, C, D) /\ ccw(A, B, C) # ccw(A, B, D)

line_intersects_rect(p1, p2, rect) ==
  LET tl == <<rect.x, rect.y>>
      tr == <<rect.x + rect.w, rect.y>>
      bl == <<rect.x, rect.y + rect.h>>
      br == <<rect.x + rect.w, rect.y + rect.h>>
  IN  \/ intersect(p1, p2, tl, tr) \/ intersect(p1, p2, tr, br)
      \/ intersect(p1, p2, br, bl) \/ intersect(p1, p2, bl, tl)

\* ---------------------------------------------------------------------
\* Keepout zone calculator
\* ---------------------------------------------------------------------
compute_keepout_zone_leftfirst(usb) ==
  LET zone_w == KEEPOUT_ZONE_DIMS[1]
      zone_depth == KEEPOUT_ZONE_DIMS[2]
      c == center_of(usb)
  IN  IF usb.x = 0
        THEN [x |-> 0, y |-> c[2] - zone_w \div 2, w |-> zone_depth, h |-> zone_w]
      ELSE IF usb.y = 0
        THEN [x |-> c[1] - zone_w \div 2, y |-> 0, w |-> zone_w, h |-> zone_depth]
      ELSE IF usb.y + usb.h = BOARD_DIMS[2]
        THEN [x |-> c[1] - zone_w \div 2, y |-> BOARD_DIMS[2] - zone_depth,
              w |-> zone_w, h |-> zone_depth]
      ELSE [x |-> BOARD_DIMS[1] - zone_depth, y |-> c[2] - zone_w \div 2,
            w |-> zone_depth, h |-> zone_w]

compute_keepout_zone(usb) ==
  LET zone_w == KEEPOUT_ZONE_DIMS[1]
      zone_depth == KEEPOUT_ZONE_DIMS[2]
      c == center_of(usb)
  IN  IF usb.y = 0
        THEN [x |-> c[1] - zone_w \div 2, y |-> 0, w |-> zone_w, h |-> zone_depth]
      ELSE IF usb.y + usb.h = BOARD_DIMS[2]
        THEN [x |-> c[1] - zone_w \div 2, y |-> BOARD_DIMS[2] - zone_depth,
              w |-> zone_w, h |-> zone_depth]
      ELSE IF usb.x = 0
        THEN [x |-> 0, y |-> c[2] - zone_w \div 2, w |-> zone_depth, h |-> zone_w]
      ELSE [x |-> BOARD_DIMS[1] - zone_depth, y |-> c[2] - zone_w \div 2,
            w |-> zone_depth, h |-> zone_w]

\* ---------------------------------------------------------------------
\* Constraint validator of the solver (validate_full)
\* ---------------------------------------------------------------------
RuleNames == {"Boundary Constraint", "No Overlapping", "Edge Placement",
              "Parallel Placement", "Proximity Constraint", "Global Balance",
              "Keep-Out Zone"}

all_in_bounds(placement) == \A k \in DOMAIN placement : in_bounds(placement[k])

\* overlap flag of the pairwise loop (lines 160-168)
overlap(placement) ==
  \E i, j \in DOMAIN placement : i # j /\ bbox_overlap(placement[i], placement[j])

touches(comp) ==
  \/ comp.x = 0 \/ comp.y = 0
  \/ comp.x + comp.w = BOARD_DIMS[1]
  \/ comp.y + comp.h = BOARD_DIMS[2]

edge_names == {USB, MB1, MB2}

all_on_edge(placement) == \A name \in edge_names : touches(placement[name])

is_parallel_nowidth(placement) ==
  LET mb1 == placement[MB1]
      mb2 == placement[MB2]
  IN  \/ (mb1.x = 0 /\ mb2.x + mb2.w = BOARD_DIMS[1])
      \/ (mb1.x + mb1.w = BOARD_DIMS[1] /\ mb2.x = 0)
      \/ (mb1.y = 0 /\ mb2.y + mb2.h = BOARD_DIMS[2])
      \/ (mb1.y + mb1.h = BOARD_DIMS[2] /\ mb2.y = 0)

is_parallel(placement) ==
  LET mb1 == placement[MB1]
      mb2 == placement[MB2]
  IN  /\ mb1.w = mb2.w
      /\ \/ (mb1.x = 0 /\ mb2.x + mb2.w = BOARD_DIMS[1])
         \/ (mb1.x + mb1.w = BOARD_DIMS[1] /\ mb2.x = 0)
         \/ (mb1.y = 0 /\ mb2.y + mb2.h = BOARD_DIMS[2])
         \/ (mb1.y + mb1.h = BOARD_DIMS[2] /\ mb2.y = 0)

proximity_ok(placement) ==
  distance_sq(center_of(placement[XTAL]), center_of(placement[MC]))
    <= PROXIMITY_RADIUS * PROXIMITY_RADIUS

RECURSIVE SumOver(_, _, _)
SumOver(f, S, i) ==
  IF S = {} THEN 0
  ELSE LET k == CHOOSE k \in S : TRUE
       IN  center_of(f[k])[i] + SumOver(f, S \ {k}, i)

\* distance((sum_x / n, sum_y / n), board centre) <= limit, on the offsets
\* ex, ey of the sums and the limit, all multiplied by 2n.  Inside and
\* outside the circle the float result is the exact one.  On the circle it
\* is the exact one (TRUE) only for the axis points, where sum / n is
\* exact (27.0 - 25.0 = 2.0); at the other lattice points of the circle
\* (offsets 1.6 and 1.2) sum / n is rounded and the distance computed
\* comes out above the limit.
com_dist_le(ex, ey, lim) ==
  LET d2 == ex * ex + ey * ey
  IN  d2 < lim * lim \/ (d2 = lim * lim /\ (ex = 0 \/ ey = 0))

\* com_dist <= CENTER_OF_MASS_RADIUS, with com = sum(centers) / len(centers)
com_within(placement) ==
  LET n == Cardinality(DOMAIN placement)
      sx == SumOver(placement, DOMAIN placement, 1)
      sy == SumOver(placement, DOMAIN placement, 2)
      ex == 2 * sx - n * BOARD_DIMS[1]
      ey == 2 * sy - n * BOARD_DIMS[2]
  IN  com_dist_le(ex, ey, 2 * n * CENTER_OF_MASS_RADIUS)

keepout_intersects(placement) ==
  line_intersects_rect(center_of(placement[XTAL]), center_of(placement[MC]),
                       compute_keepout_zone(placement[USB]))

MissingResult == [overall |-> FALSE, results |-> [k \in {"missing"} |-> TRUE]]

rule_results(placement) ==
  [k \in RuleNames |->
     CASE k = "Boundary Constraint" -> all_in_bounds(placement)
       [] k = "No Overlapping" -> ~ overlap(placement)
       [] k = "Edge Placement" -> all_on_edge(placement)
       [] k = "Parallel Placement" -> is_parallel(placement)
       [] k = "Proximity Constraint" -> proximity_ok(placement)
       [] k = "Global Balance" -> com_within(placement)
       [] k = "Keep-Out Zone" -> ~ keepout_intersects(placement)]

\* A validator that stops at the first failing rule.
validate_full_shortcircuit(placement) ==
  IF ~ (required_keys \subseteq DOMAIN placement) THEN MissingResult
  ELSE IF ~ all_in_bounds(placement)
    THEN [overall |-> FALSE,
          results |-> [k \in {"Boundary Constraint"} |-> FALSE]]
  ELSE LET results == rule_results(placement)
       IN  [overall |-> \A k \in DOMAIN results : results[k], results |-> results]

\* A validator that evaluates the rules on whatever components are present.
validate_full_nomissing(placement) ==
  LET results == [k \in RuleNames |->
                    CASE k = "Boundary Constraint" -> all_in_bounds(placement)
                      [] k = "No Overlapping" -> ~ overlap(placement)
                      [] OTHER -> required_keys \subseteq DOMAIN placement]
  IN  [overall |-> \A k \in DOMAIN results : results[k], results |-> results]

validate_full(placement) ==
  IF ~ (required_keys \subseteq DOMAIN placement) THEN MissingResult
  ELSE LET results == rule_results(placement)
       IN  [overall |-> \A k \in DOMAIN results : results[k], results |-> results]

\* ---------------------------------------------------------------------
\* The assignment's checker (validate_placement), translated on its own
\* ---------------------------------------------------------------------
chk_get_center(comp) == <<comp.x + comp.w \div 2, comp.y + comp.h \div 2>>

\* Square of _distance(p1, p2).
chk_distance_sq(p1, p2) ==
  (p2[1] - p1[1]) * (p2[1] - p1[1]) + (p2[2] - p1[2]) * (p2[2] - p1[2])

chk_all_in_bounds(placement) ==
  ~ \E name \in DOMAIN placement :
      LET comp == placement[name]
      IN  ~ (comp.x >= 0 /\ comp.y >= 0 /\
             comp.x + comp.w <= BOARD_DIMS[1] /\
             comp.y + comp.h <= BOARD_DIMS[2])

chk_overlap_found(placement) ==
  \E i, j \in DOMAIN placement :
     /\ i # j
     /\ LET c1 == placement[i]
            c2 == placement[j]
        IN  ~ (c1.x + c1.w <= c2.x \/ c1.x >= c2.x + c2.w \/
               c1.y + c1.h <= c2.y \/ c1.y >= c2.y + c2.h)

chk_all_on_edge(placement) ==
  \A name \in {USB, MB1, MB2} :
     LET comp == placement[name]
     IN  \/ comp.x = 0 \/ comp.y = 0
         \/ comp.x + comp.w = BOARD_DIMS[1] \/ comp.y + comp.h = BOARD_DIMS[2]

chk_is_parallel(placement) ==
  LET mb1 == placement[MB1]
      mb2 == placement[MB2]
      on_opp_v == \/ (mb1.x = 0 /\ mb2.x + mb2.w = BOARD_DIMS[1])
                  \/ (mb1.x + mb1.w = BOARD_DIMS[1] /\ mb2.x = 0)
      on_opp_h == \/ (mb1.y = 0 /\ mb2.y + mb2.h = BOARD_DIMS[2])
                  \/ (mb1.y + mb1.h = BOARD_DIMS[2] /\ mb2.y = 0)
  IN  IF mb1.w = mb2.w THEN on_opp_v \/ on_opp_h ELSE FALSE

chk_proximity(placement) ==
  chk_distance_sq(chk_get_center(placement[XTAL]), chk_get_center(placement[MC]))
    <= PROXIMITY_RADIUS * PROXIMITY_RADIUS

RECURSIVE chk_sum(_, _, _)
chk_sum(f, S, i) ==
  IF S = {} THEN 0
  ELSE LET k == CHOOSE k \in S : TRUE
       IN  chk_get_center(f[k])[i] + chk_sum(f, S \ {k}, i)

\* _distance((com_x, com_y), board_center) <= limit, as com_dist_le: the
\* sqrt of the squares rounds as hypot does at every point of the circle.
chk_com_dist_le(ex, ey, lim) ==
  LET d2 == ex * ex + ey * ey
  IN  IF d2 = lim * lim THEN ex = 0 \/ ey = 0 ELSE d2 < lim * lim

chk_balance(placement) ==
  LET n == Cardinality(DOMAIN placement)
      ex == 2 * chk_sum(placement, DOMAIN placement, 1) - n * BOARD_DIMS[1]
      ey == 2 * chk_sum(placement, DOMAIN placement, 2) - n * BOARD_DIMS[2]
  IN  chk_com_dist_le(ex, ey, 2 * n * CENTER_OF_MASS_RADIUS)

chk_zone(usb) ==
  LET zone_w == KEEPOUT_ZONE_DIMS[1]
      zone_h_inward == KEEPOUT_ZONE_DIMS[2]
      c == chk_get_center(usb)
  IN  IF usb.y = 0
        THEN [x |-> c[1] - zone_w \div 2, y |-> 0, w |-> zone_w, h |-> zone_h_inward]
      ELSE IF usb.y + usb.h = BOARD_DIMS[2]
        THEN [x |-> c[1] - zone_w \div 2, y |-> BOARD_DIMS[2] - zone_h_inward,
              w |-> zone_w, h |-> zone_h_inward]
      ELSE IF usb.x = 0
        THEN [x |-> 0, y |-> c[2] - zone_w \div 2, w |-> zone_h_inward, h |-> zone_w]
      ELSE [x |-> BOARD_DIMS[1] - zone_h_inward, y |-> c[2] - zone_w \div 2,
            w |-> zone_h_inward, h |-> zone_w]

chk_intersects(placement) ==
  LET zone == chk_zone(placement[USB])
      p1 == chk_get_center(placement[XTAL])
      p2 == chk_get_center(placement[MC])
      c(A, B, C) == (C[2] - A[2]) * (B[1] - A[1]) > (B[2] - A[2]) * (C[1] - A[1])
      x(A, B, C, D) == c(A, C, D) # c(B, C, D) /\ c(A, B, C) # c(A, B, D)
      tl == <<zone.x, zone.y>>
      tr == <<zone.x + zone.w, zone.y>>
      bl == <<zone.x, zone.y + zone.h>>
      br == <<zone.x + zone.w, zone.y + zone.h>>
  IN  x(p1, p2, tl, tr) \/ x(p1, p2, tr, br) \/ x(p1, p2, br, bl) \/ x(p1, p2, bl, tl)

\* The checker's return value and, for a complete placement, its results dict.
validate_placement(placement) ==
  IF ~ (\A key \in required_keys : key \in DOMAIN placement)
    THEN [ret |-> FALSE, results |-> <<>>]
  ELSE LET results ==
             [k \in RuleNames |->
                CASE k = "Boundary Constraint" -> chk_all_in_bounds(placement)
                  [] k = "No Overlapping" -> ~ chk_overlap_found(placement)
                  [] k = "Edge Placement" -> chk_all_on_edge(placement)
                  [] k = "Parallel Placement" -> chk_is_parallel(placement)
                  [] k = "Proximity Constraint" -> chk_proximity(placement)
                  [] k = "Global Balance" -> chk_balance(placement)
                  [] k = "Keep-Out Zone" -> ~ chk_intersects(placement)]
       IN  [ret |-> ~ \E rule \in DOMAIN results : ~ results[rule],
            results |-> results]

\* ---------------------------------------------------------------------
\* Validator harness: a caller hands a placement to validate_full and to
\* the checker's validate_placement.
\* ---------------------------------------------------------------------
Absent == [absent |-> TRUE]

UsbChoices == {Rect(20, 45, 5, 5), Rect(20, 0, 5, 5), Rect(20, 22, 5, 5)}
Mb1Choices == {Rect(0, 15, 5, 15), Rect(0, 15, 5, 10), Rect(10, 15, 5, 15),
               Rect(0, 15, 7, 15)}
Mb2Choices == {Rect(45, 15, 5, 15), Rect(45, 15, 5, 10), Rect(46, 15, 5, 15),
               Rect(43, 15, 7, 15)}
McChoices == {Rect(22, 22, 5, 5), Rect(27, 22, -5, 5), Rect(40, 40, 5, 5),
              Rect(22, 33, 5, 5)}
XtalChoices == {Rect(25, 14, 5, 5), Rect(25, 14, 0, 5), Rect(25, 40, 5, 5),
                Rect(23, 24, 5, 5), Rect(12, 33, 5, 5)}

\* The placement made of the chosen components, the absent ones left out.
MakePlacement(c) ==
  [n \in {k \in required_keys : c[k] # Absent} |-> c[n]]

GeomIdle == gin = NotCalled /\ gout = NotCalled

InitValidator ==
  /\ \E u \in UsbChoices \cup {Absent}, a \in Mb1Choices \cup {Absent},
        b \in Mb2Choices \cup {Absent}, m \in McChoices \cup {Absent},
        x \in XtalChoices \cup {Absent} :
       given = MakePlacement([n \in required_keys |->
                 CASE n = USB -> u [] n = MB1 -> a [] n = MB2 -> b
                   [] n = MC -> m [] n = XTAL -> x])
  /\ vres = NotCalled
  /\ chk = NotCalled
  /\ GeomIdle
  /\ SearchIdle

CallValidateFull ==
  /\ vres = NotCalled
  /\ vres' = validate_full(given)
  /\ UNCHANGED <<given, chk, gvars, svars>>

CallValidatePlacement ==
  /\ chk = NotCalled
  /\ chk' = validate_placement(given)
  /\ UNCHANGED <<given, vres, gvars, svars>>

NextValidator == CallValidateFull \/ CallValidatePlacement

SpecValidator == InitValidator /\ [][NextValidator]_vars

\* ---------------------------------------------------------------------
\* Claims about the validator (checked under SpecValidator)
\* ---------------------------------------------------------------------
Complete(p) == required_keys \subseteq DOMAIN p

Validated == vres # NotCalled

\* C2: for a complete placement validate_full returns an entry for each of
\* the seven rules, whichever of them fail, and overall is the conjunction
\* of the seven per-rule booleans.
C2_AllRulesReported ==
  (Validated /\ Complete(given)) =>
     /\ DOMAIN vres.results = RuleNames
     /\ vres.overall =
          (/\ vres.results["Boundary Constraint"]
           /\ vres.results["No Overlapping"]
           /\ vres.results["Edge Placement"]
           /\ vres.results["Parallel Placement"]
           /\ vres.results["Proximity Constraint"]
           /\ vres.results["Global Balance"]
           /\ vres.results["Keep-Out Zone"])

\* A complete placement whose first rule (Boundary) fails and whose later
\* rules are reported all the same, one failing and one passing.
C2_Witness ==
  /\ Validated /\ Complete(given)
  /\ DOMAIN vres.results = RuleNames
  /\ ~ vres.results["Boundary Constraint"]
  /\ ~ vres.results["Edge Placement"]
  /\ vres.results["Proximity Constraint"]
  /\ ~ vres.overall

\* C3: when a required name is absent validate_full returns overall FALSE
\* with the result {'missing': True} and no per-rule entry, whatever the
\* components that are present look like.
C3_MissingComponent ==
  (Validated /\ ~ Complete(given)) =>
     /\ vres.overall = FALSE
     /\ vres.results = [k \in {"missing"} |-> TRUE]
     /\ DOMAIN vres.results \cap RuleNames = {}

\* Only the crystal is absent; the four components present are the sample
\* ones, which break no rule among themselves.
C3_Witness ==
  /\ Validated
  /\ DOMAIN given = required_keys \ {XTAL}
  /\ given[USB] = Rect(20, 45, 5, 5) /\ given[MB1] = Rect(0, 15, 5, 15)
  /\ given[MB2] = Rect(45, 15, 5, 15) /\ given[MC] = Rect(22, 22, 5, 5)
  /\ vres.overall = FALSE

\* C4: validate_full agrees with the checker's validate_placement: the same
\* overall verdict for every placement, and for a complete placement the
\* same boolean for each of the seven rules.
C4_AgreesWithChecker ==
  (Validated /\ chk # NotCalled) =>
     /\ vres.overall = chk.ret
     /\ Complete(given) =>
          /\ DOMAIN vres.results = RuleNames
          /\ \A r \in RuleNames : vres.results[r] = chk.results[r]

\* Both validators were run on a complete placement that both accept.
C4_Witness ==
  /\ Validated /\ chk # NotCalled /\ Complete(given)
  /\ vres.overall /\ chk.ret

\* Two connectors on opposite board edges (left/right or bottom/top).
OnOppositeEdges(a, b) ==
  \/ (a.x = 0 /\ b.x + b.w = BOARD_DIMS[1])
  \/ (b.x = 0 /\ a.x + a.w = BOARD_DIMS[1])
  \/ (a.y = 0 /\ b.y + b.h = BOARD_DIMS[2])
  \/ (b.y = 0 /\ a.y + a.h = BOARD_DIMS[2])

ParallelPassed ==
  Validated /\ Complete(given) /\ vres.results["Parallel Placement"]

\* C8 as stated: Parallel Placement passes only if the two mirrored
\* connectors have the same width and the same height and sit on opposite
\* board edges.
C8_EqualSizeRequired ==
  ParallelPassed =>
     /\ given[MB1].w = given[MB2].w
     /\ given[MB1].h = given[MB2].h
     /\ OnOppositeEdges(given[MB1], given[MB2])

\* C8 as amended: Parallel Placement passes only if the two mirrored
\* connectors have the same width and sit on opposite board edges; their
\* heights are not compared.
C8_EqualWidthRequired ==
  ParallelPassed =>
     /\ given[MB1].w = given[MB2].w
     /\ OnOppositeEdges(given[MB1], given[MB2])

\* The rule passed for two connectors of different heights.
C8_Witness == ParallelPassed /\ given[MB1].h # given[MB2].h

Malformed(p) == \E n \in DOMAIN p : p[n].w <= 0 \/ p[n].h <= 0

\* C9: a complete placement in which some component has zero or negative
\* width or height is rejected (overall FALSE).
C9_RejectsMalformed ==
  (Validated /\ Complete(given) /\ Malformed(given)) => vres.overall = FALSE

\* ---------------------------------------------------------------------
\* Geometry harnesses: a caller applies one primitive to arguments drawn
\* from small sets.
\* ---------------------------------------------------------------------
MaxCoord == 2
MaxSize == 2
MaxPt == 4
MaxOff == 2

ValidatorIdle == given = << >> /\ vres = NotCalled /\ chk = NotCalled /\ SearchIdle

SmallRects ==
  {[x |-> x, y |-> y, w |-> w, h |-> h] :
     x \in 0..MaxCoord, y \in 0..MaxCoord, w \in 0..MaxSize, h \in 0..MaxSize}

InitOverlap ==
  /\ \E a \in SmallRects, b \in SmallRects : gin = [a |-> a, b |-> b]
  /\ gout = NotCalled
  /\ ValidatorIdle

CallBboxOverlap ==
  /\ gout = NotCalled
  /\ gout' = [ab |-> bbox_overlap(gin.a, gin.b), ba |-> bbox_overlap(gin.b, gin.a)]
  /\ UNCHANGED <<gin, vvars, svars>>

SpecOverlap == InitOverlap /\ [][CallBboxOverlap]_vars

Points == {<<x, y>> : x \in 0..MaxPt, y \in 0..MaxPt}

InnerRects == {[x |-> 1, y |-> 1, w |-> w, h |-> h] : w \in 1..2, h \in 1..2}

InitSegment ==
  /\ \E p1 \in Points, p2 \in Points, rect \in InnerRects :
       gin = [p1 |-> p1, p2 |-> p2, rect |-> rect]
  /\ gout = NotCalled
  /\ ValidatorIdle

CallLineIntersectsRect ==
  /\ gout = NotCalled
  /\ gout' = [ret |-> line_intersects_rect(gin.p1, gin.p2, gin.rect)]
  /\ UNCHANGED <<gin, vvars, svars>>

SpecSegment == InitSegment /\ [][CallLineIntersectsRect]_vars

\* Connector positions near each board edge and corner, and off the edges.
UsbSizes == {<<5 * Scale, 5 * Scale>>, <<5 * Scale, 15 * Scale>>, <<15 * Scale, 5 * Scale>>}

Offsets(len, size) ==
  {2 * i : i \in 0..MaxOff} \cup {len - size - 2 * i : i \in 0..MaxOff}

InitKeepout ==
  /\ \E sz \in UsbSizes :
       \E x \in Offsets(BOARD_DIMS[1], sz[1]), y \in Offsets(BOARD_DIMS[2], sz[2]) :
          gin = [usb |-> [x |-> x, y |-> y, w |-> sz[1], h |-> sz[2]]]
  /\ gout = NotCalled
  /\ ValidatorIdle

CallComputeKeepoutZone ==
  /\ gout = NotCalled
  /\ gout' = [zone |-> compute_keepout_zone(gin.usb)]
  /\ UNCHANGED <<gin, vvars, svars>>

SpecKeepout == InitKeepout /\ [][CallComputeKeepoutZone]_vars

\* ---------------------------------------------------------------------
\* Claims about the geometry primitives
\* ---------------------------------------------------------------------
Min(a, b) == IF a <= b THEN a ELSE b
Max(a, b) == IF a >= b THEN a ELSE b

\* Two rectangles of positive size whose closed extents meet in a set of
\* zero area: a shared edge, part of one, or a corner.
SharesOnlyBoundary(a, b) ==
  LET ox == Min(a.x + a.w, b.x + b.w) - Max(a.x, b.x)
      oy == Min(a.y + a.h, b.y + b.h) - Max(a.y, b.y)
  IN  /\ a.w > 0 /\ a.h > 0 /\ b.w > 0 /\ b.h > 0
      /\ ox >= 0 /\ oy >= 0
      /\ (ox = 0 \/ oy = 0)

\* C5 (checked under SpecOverlap): bbox_overlap(a, b) = bbox_overlap(b, a)
\* for every pair, and rectangles that share only an edge or a corner do
\* not overlap.
C5_OverlapSymmetricTouchingFree ==
  gout # NotCalled =>
     /\ gout.ab = gout.ba
     /\ SharesOnlyBoundary(gin.a, gin.b) => ~ gout.ab

\* a's right edge lies on b's left edge (a.x + a.w == b.x) and the
\* primitive was applied both ways round.
C5_Witness ==
  /\ gout # NotCalled
  /\ gin.a.w > 0 /\ gin.b.w > 0 /\ gin.a.h > 0 /\ gin.b.h > 0
  /\ gin.a.x + gin.a.w = gin.b.x
  /\ gin.a.y = gin.b.y
  /\ ~ gout.ab /\ ~ gout.ba

\* Twice the signed area of the triangle A, B, C.
Orient(A, B, C) == (B[1] - A[1]) * (C[2] - A[2]) - (B[2] - A[2]) * (C[1] - A[1])

\* The segments AB and CD cross at one point interior to both.
ProperCross(A, B, C, D) ==
  /\ Orient(A, B, C) * Orient(A, B, D) < 0
  /\ Orient(C, D, A) * Orient(C, D, B) < 0

\* P lies on the closed segment CD.
OnSegment(P, C, D) ==
  /\ Orient(C, D, P) = 0
  /\ Min(C[1], D[1]) <= P[1] /\ P[1] <= Max(C[1], D[1])
  /\ Min(C[2], D[2]) <= P[2] /\ P[2] <= Max(C[2], D[2])

RectEdges(rect) ==
  LET tl == <<rect.x, rect.y>>
      tr == <<rect.x + rect.w, rect.y>>
      bl == <<rect.x, rect.y + rect.h>>
      br == <<rect.x + rect.w, rect.y + rect.h>>
  IN  {<<tl, tr>>, <<tr, br>>, <<br, bl>>, <<bl, tl>>}

\* The segment touches the rectangle's boundary (at a corner, with an
\* endpoint on an edge, or along an edge) and properly crosses no edge.
Grazes(p1, p2, rect) ==
  /\ p1 # p2
  /\ \E e \in RectEdges(rect) :
        \/ OnSegment(p1, e[1], e[2]) \/ OnSegment(p2, e[1], e[2])
        \/ OnSegment(e[1], p1, p2) \/ OnSegment(e[2], p1, p2)
  /\ \A e \in RectEdges(rect) : ~ ProperCross(p1, p2, e[1], e[2])

\* C6 (checked under SpecSegment): a segment that only grazes the
\* rectangle is never reported as intersecting.
C6_GrazingNotReported ==
  (gout # NotCalled /\ Grazes(gin.p1, gin.p2, gin.rect)) => gout.ret = FALSE

\* C7 (checked under SpecKeepout): the edge is chosen in the order y == 0,
\* y + h == H, x == 0, else right; the zone is centred on the connector's
\* centre along that edge, starts at the edge and reaches zone_depth
\* inward; it is zone_w by zone_depth on the y edges and zone_depth by
\* zone_w on the x edges, so its area is zone_w * zone_depth everywhere.
C7_KeepoutZone ==
  gout # NotCalled =>
    LET u == gin.usb
        z == gout.zone
        zone_w == KEEPOUT_ZONE_DIMS[1]
        zone_depth == KEEPOUT_ZONE_DIMS[2]
        AlongX == z.w = zone_w /\ z.h = zone_depth /\ 2 * z.x + z.w = 2 * u.x + u.w
        AlongY == z.w = zone_depth /\ z.h = zone_w /\ 2 * z.y + z.h = 2 * u.y + u.h
    IN  /\ z.w * z.h = zone_w * zone_depth
        /\ IF u.y = 0 THEN AlongX /\ z.y = 0
           ELSE IF u.y + u.h = BOARD_DIMS[2] THEN AlongX /\ z.y + z.h = BOARD_DIMS[2]
           ELSE IF u.x = 0 THEN AlongY /\ z.x = 0
           ELSE AlongY /\ z.x + z.w = BOARD_DIMS[1]

\* A connector in the corner x == 0, y == 0 got the zone of the y == 0 edge.
C7_Witness ==
  /\ gout # NotCalled
  /\ gin.usb.x = 0 /\ gin.usb.y = 0
  /\ gout.zone.y = 0 /\ gout.zone.w = KEEPOUT_ZONE_DIMS[1]
  /\ gout.zone.h = KEEPOUT_ZONE_DIMS[2]

\* ---------------------------------------------------------------------
\* Scoring.  bbox_area is kept in board units squared (a whole number for
\* the placements the search builds, whose extents are whole board units);
\* centrality by its square in half board units, so that
\* total = bbox_area + 10 * centrality = bbox_area + 5 * sqrt(centrality_sq).
\* ---------------------------------------------------------------------
RECURSIVE MinOver(_, _, _)
MinOver(f, S, lo) ==
  LET k == CHOOSE k \in S : TRUE
      v == IF lo THEN f[k].x ELSE f[k].y
  IN  IF S = {k} THEN v ELSE Min(v, MinOver(f, S \ {k}, lo))

RECURSIVE MaxOver(_, _, _)
MaxOver(f, S, lo) ==
  LET k == CHOOSE k \in S : TRUE
      v == IF lo THEN f[k].x + f[k].w ELSE f[k].y + f[k].h
  IN  IF S = {k} THEN v ELSE Max(v, MaxOver(f, S \ {k}, lo))

compute_score(placement) ==
  LET D == DOMAIN placement
      min_x == MinOver(placement, D, TRUE)
      max_x == MaxOver(placement, D, TRUE)
      min_y == MinOver(placement, D, FALSE)
      max_y == MaxOver(placement, D, FALSE)
      micro_center == center_of(placement[MC])
      ex == (2 * micro_center[1] - BOARD_DIMS[1]) \div Scale
      ey == (2 * micro_center[2] - BOARD_DIMS[2]) \div Scale
  IN  [bbox_area |-> ((max_x - min_x) * (max_y - min_y)) \div (Scale * Scale),
       centrality_sq |-> ex * ex + ey * ey]

Isqrt(n) == CHOOSE s \in 0..n : s * s <= n /\ n < (s + 1) * (s + 1)

\* Sign (-1, 0, 1) of 5*sqrt(p1) - (d + 5*sqrt(p2)) for d > 0, exactly.
SignRootDiff(p1, p2, d) ==
  IF p1 <= p2 THEN -1
  ELSE LET e == 25 * (p1 - p2) - d * d    \* sign of e - 10*d*sqrt(p2) is wanted
           s == Isqrt(p2)
           f == e \div (10 * d)
           g == e % (10 * d)
       IN  IF s * s = p2
             THEN (IF e < 10 * d * s THEN -1 ELSE IF e = 10 * d * s THEN 0 ELSE 1)
           ELSE IF f < s THEN -1
           ELSE IF f > s THEN 1
           ELSE IF 20 * s * g + (g * g) \div d < 100 * d * (p2 - s * s) THEN -1 ELSE 1

\* total_score(a) < total_score(b)
score_less(a, b) ==
  LET d == b.bbox_area - a.bbox_area
  IN  IF d = 0 THEN a.centrality_sq < b.centrality_sq
      ELSE IF d > 0 THEN SignRootDiff(a.centrality_sq, b.centrality_sq, d) < 0
      ELSE SignRootDiff(b.centrality_sq, a.centrality_sq, -d) > 0

\* ---------------------------------------------------------------------
\* Deterministic seating
\* ---------------------------------------------------------------------
place_edge_components_usb_y0 ==
  LET mb_w == SIZES[MB1][1]
      mb_h == SIZES[MB1][2]
      usb_w == SIZES[USB][1]
      usb_h == SIZES[USB][2]
      mb1_y == Min(Max(0, 10 * Scale), BOARD_DIMS[2] - mb_h)
  IN  [n \in {MB1, MB2, USB} |->
         CASE n = MB1 -> [x |-> 0, y |-> mb1_y, w |-> mb_w, h |-> mb_h]
           [] n = MB2 -> [x |-> BOARD_DIMS[1] - mb_w, y |-> mb1_y, w |-> mb_w, h |-> mb_h]
           [] n = USB -> [x |-> (BOARD_DIMS[1] - usb_w) \div 2, y |-> 0,
                          w |-> usb_w, h |-> usb_h]]

place_edge_components ==
  LET mb_w == SIZES[MB1][1]
      mb_h == SIZES[MB1][2]
      usb_w == SIZES[USB][1]
      usb_h == SIZES[USB][2]
      mb1_x == 0
      mb1_y == Min(Max(0, 10 * Scale), BOARD_DIMS[2] - mb_h)
      mb2_x == BOARD_DIMS[1] - mb_w
      mb2_y == mb1_y
      usb_x == (BOARD_DIMS[1] - usb_w) \div 2
      usb_y == BOARD_DIMS[2] - usb_h
  IN  [n \in {MB1, MB2, USB} |->
         CASE n = MB1 -> [x |-> mb1_x, y |-> mb1_y, w |-> mb_w, h |-> mb_h]
           [] n = MB2 -> [x |-> mb2_x, y |-> mb2_y, w |-> mb_w, h |-> mb_h]
           [] n = USB -> [x |-> usb_x, y |-> usb_y, w |-> usb_w, h |-> usb_h]]

\* ---------------------------------------------------------------------
\* Ring-order enumeration of the microcontroller cells (board units)
\* ---------------------------------------------------------------------
\* int(): truncation toward zero of n / d, d > 0
IntTrunc(n, d) == IF n >= 0 THEN n \div d ELSE -((-n) \div d)

\* The ring loops with the column pass as range(-r, r - 1): it starts on a
\* corner and stops one cell short.
RingCell_offbyone(r, k) ==
  IF k < 2 * (2 * r + 1)
    THEN <<-r + k \div 2, IF k % 2 = 0 THEN -r ELSE r>>
  ELSE LET k2 == k - 2 * (2 * r + 1)
       IN  <<IF k2 % 2 = 0 THEN -r ELSE r, -r + k2 \div 2>>

\* The raw cells of ring r in generation order: the dx loop over the rows
\* dy = -r, r, then the dy loop over the columns dx = -r, r.
RingCell(r, k) ==
  IF k < 2 * (2 * r + 1)
    THEN <<-r + k \div 2, IF k % 2 = 0 THEN -r ELSE r>>
  ELSE LET k2 == k - 2 * (2 * r + 1)
       IN  <<IF k2 % 2 = 0 THEN -r ELSE r, -r + 1 + k2 \div 2>>

McInRange(x, y) ==
  /\ 0 <= x * Scale /\ x * Scale <= BOARD_DIMS[1] - SIZES[MC][1]
  /\ 0 <= y * Scale /\ y * Scale <= BOARD_DIMS[2] - SIZES[MC][2]

Ring(r) ==
  LET cx == IntTrunc(BOARD_DIMS[1] \div 2, Scale)
      cy == IntTrunc(BOARD_DIMS[2] \div 2, Scale)
      raw == [i \in 1..(8 * r) |->
                <<cx + RingCell(r, i - 1)[1], cy + RingCell(r, i - 1)[2]>>]
      keep(c) == McInRange(c[1], c[2])
  IN  SelectSeq(raw, keep)

RECURSIVE Rings(_, _)
Rings(r, maxr) == IF r >= maxr THEN << >> ELSE Ring(r) \o Rings(r + 1, maxr)

\* The generator with the ring loop as range(1, 2): it stops after the
\* first ring.
prioritized_positions_firstring ==
  LET cx == IntTrunc(BOARD_DIMS[1] \div 2, Scale)
      cy == IntTrunc(BOARD_DIMS[2] \div 2, Scale)
  IN  <<<<cx, cy>>>> \o Rings(1, 2)

\* The sequence of cells the generator yields, in order.
prioritized_positions ==
  LET cx == IntTrunc(BOARD_DIMS[1] \div 2, Scale)
      cy == IntTrunc(BOARD_DIMS[2] \div 2, Scale)
      maxr == Max(BOARD_DIMS[1], BOARD_DIMS[2]) \div Scale
  IN  <<<<cx, cy>>>> \o Rings(1, maxr)

\* ---------------------------------------------------------------------
\* find_solution
\* ---------------------------------------------------------------------
McAt(i) ==
  [x |-> prioritized_positions[i][1] * Scale, y |-> prioritized_positions[i][2] * Scale,
   w |-> SIZES[MC][1], h |-> SIZES[MC][2]]

overlap_edge(mc, b) == \E k \in DOMAIN b : bbox_overlap(mc, b[k])

\* The crystal window of a microcontroller candidate, in board units.
Window(mc) ==
  LET mc_center == center_of(mc)
      xt_w == SIZES[XTAL][1]
      xt_h == SIZES[XTAL][2]
  IN  [min_cx |-> Max(0, IntTrunc(mc_center[1] - PROXIMITY_RADIUS, Scale)),
       max_cx |-> Min((BOARD_DIMS[1] - xt_w) \div Scale,
                      IntTrunc(mc_center[1] + PROXIMITY_RADIUS, Scale)),
       min_cy |-> Max(0, IntTrunc(mc_center[2] - PROXIMITY_RADIUS, Scale)),
       max_cy |-> Min((BOARD_DIMS[2] - xt_h) \div Scale,
                      IntTrunc(mc_center[2] + PROXIMITY_RADIUS, Scale))]

Assemble(b, mc, xt) ==
  [n \in DOMAIN b \cup {MC, XTAL} |->
     IF n = MC THEN mc ELSE IF n = XTAL THEN xt ELSE b[n]]

\* com_dist > CENTER_OF_MASS_RADIUS of the inline balance check
com_dist_exceeds(placement) ==
  LET n == Cardinality(DOMAIN placement)
      ex == 2 * SumOver(placement, DOMAIN placement, 1) - n * BOARD_DIMS[1]
      ey == 2 * SumOver(placement, DOMAIN placement, 2) - n * BOARD_DIMS[2]
  IN  ~ com_dist_le(ex, ey, 2 * n * CENTER_OF_MASS_RADIUS)

collision(placement) ==
  \E i, j \in DOMAIN placement : i # j /\ bbox_overlap(placement[i], placement[j])

\* A candidate accepted without the proximity test.
candidate_accepted_noproximity(b, zone, mc, xt) ==
  /\ in_bounds(xt)
  /\ ~ (\E k \in DOMAIN b : bbox_overlap(xt, b[k]))
  /\ ~ bbox_overlap(xt, mc)
  /\ LET placement == Assemble(b, mc, xt)
     IN  /\ ~ com_dist_exceeds(placement)
         /\ ~ line_intersects_rect(center_of(placement[XTAL]),
                                   center_of(placement[MC]), zone)
         /\ ~ collision(placement)

\* The keepout test inverted: a candidate is skipped when the segment does
\* not intersect the zone.
candidate_accepted_keepoutinverted(b, zone, mc, xt) ==
  /\ ~ (distance_sq(center_of(mc), center_of(xt)) > PROXIMITY_RADIUS * PROXIMITY_RADIUS)
  /\ in_bounds(xt)
  /\ ~ (\E k \in DOMAIN b : bbox_overlap(xt, b[k]))
  /\ ~ bbox_overlap(xt, mc)
  /\ LET placement == Assemble(b, mc, xt)
     IN  /\ ~ com_dist_exceeds(placement)
         /\ line_intersects_rect(center_of(placement[XTAL]),
                                 center_of(placement[MC]), zone)
         /\ ~ collision(placement)

\* The candidate reaches the scoring step: none of the `continue`s is taken.
candidate_accepted(b, zone, mc, xt) ==
  /\ ~ (distance_sq(center_of(mc), center_of(xt)) > PROXIMITY_RADIUS * PROXIMITY_RADIUS)
  /\ in_bounds(xt)
  /\ ~ (\E k \in DOMAIN b : bbox_overlap(xt, b[k]))
  /\ ~ bbox_overlap(xt, mc)
  /\ LET placement == Assemble(b, mc, xt)
     IN  /\ ~ com_dist_exceeds(placement)
         /\ ~ line_intersects_rect(center_of(placement[XTAL]),
                                   center_of(placement[MC]), zone)
         /\ ~ collision(placement)

NoBest == [found |-> FALSE]

\* The innermost loop body with `total_score <= best_score`: a candidate of
\* equal score replaces the best.
Consider_tiesreplace(b, zone, mc, cx, cy, bst) ==
  LET xt == [x |-> cx * Scale, y |-> cy * Scale, w |-> SIZES[XTAL][1], h |-> SIZES[XTAL][2]]
  IN  IF ~ candidate_accepted(b, zone, mc, xt) THEN bst
      ELSE LET placement == Assemble(b, mc, xt)
               sc == compute_score(placement)
           IN  IF ~ bst.found \/ ~ score_less(bst, sc)
                 THEN [found |-> TRUE, placement |-> placement,
                       bbox_area |-> sc.bbox_area, centrality_sq |-> sc.centrality_sq]
               ELSE bst

\* The innermost loop body without the score comparison: every accepted
\* candidate replaces the best.
Consider_lastwins(b, zone, mc, cx, cy, bst) ==
  LET xt == [x |-> cx * Scale, y |-> cy * Scale, w |-> SIZES[XTAL][1], h |-> SIZES[XTAL][2]]
  IN  IF ~ candidate_accepted(b, zone, mc, xt) THEN bst
      ELSE LET placement == Assemble(b, mc, xt)
               sc == compute_score(placement)
           IN  [found |-> TRUE, placement |-> placement,
                bbox_area |-> sc.bbox_area, centrality_sq |-> sc.centrality_sq]

\* One pass of the innermost loop body: cell (cx, cy) against the best so far.
Consider(b, zone, mc, cx, cy, bst) ==
  LET xt == [x |-> cx * Scale, y |-> cy * Scale, w |-> SIZES[XTAL][1], h |-> SIZES[XTAL][2]]
  IN  IF ~ candidate_accepted(b, zone, mc, xt) THEN bst
      ELSE LET placement == Assemble(b, mc, xt)
               sc == compute_score(placement)
           IN  IF ~ bst.found \/ score_less(sc, bst)
                 THEN [found |-> TRUE, placement |-> placement,
                       bbox_area |-> sc.bbox_area, centrality_sq |-> sc.centrality_sq]
               ELSE bst

\* The cy loop of one row, from cy on.
RECURSIVE ScanRow(_, _, _, _, _, _, _)
ScanRow(b, zone, mc, cx, cy, max_cy, bst) ==
  IF cy > max_cy THEN bst
  ELSE ScanRow(b, zone, mc, cx, cy + GRID_STEP \div Scale, max_cy,
               Consider(b, zone, mc, cx, cy, bst))

NoSolution == [solution |-> FALSE]

Return(bst) ==
  IF bst.found
    THEN [solution |-> TRUE, placement |-> bst.placement,
          bbox_area |-> bst.bbox_area, centrality_sq |-> bst.centrality_sq]
  ELSE NoSolution

\* History of a run: the candidates that reached the scoring step (lines
\* 317-318), kept apart from best and best_score.
XtalAt(cx, cy) ==
  [x |-> cx * Scale, y |-> cy * Scale, w |-> SIZES[XTAL][1], h |-> SIZES[XTAL][2]]

\* The cells of row cx that reach the scoring step.
RowAccepted(b, zone, mc, cx, win) ==
  {cy \in win.min_cy .. win.max_cy : candidate_accepted(b, zone, mc, XtalAt(cx, cy))}

\* A scored candidate: its score and its place in the enumeration.
Scored(b, i, cx, cy) ==
  LET sc == compute_score(Assemble(b, McAt(i), XtalAt(cx, cy)))
  IN  [bbox_area |-> sc.bbox_area, centrality_sq |-> sc.centrality_sq,
       gi |-> i, cx |-> cx, cy |-> cy]

SameScore(e, f) ==
  e.bbox_area = f.bbox_area /\ e.centrality_sq = f.centrality_sq

\* seen, extended by the candidates of row cx (its accepted cells being
\* accepted) whose score was not seen before.
RecordRow(b, i, cx, accepted, seen) ==
  LET new == {Scored(b, i, cx, cy) : cy \in accepted}
  IN  seen \cup {e \in new : /\ ~ \E f \in seen : SameScore(e, f)
                             /\ ~ \E f \in new : SameScore(e, f) /\ f.cy < e.cy}

InitSearch ==
  /\ pc = "start" /\ base = NotCalled /\ keepout_zone = NotCalled
  /\ gi = 0 /\ cxr = 0 /\ best = NotCalled /\ result = NotCalled
  /\ expired = FALSE /\ config = DefaultConfig
  /\ NoHistory
  /\ given = << >> /\ vres = NotCalled /\ chk = NotCalled
  /\ GeomIdle

\* Lines 235-246: seat the connectors, precompute the zone, pull the first cell.
Start ==
  /\ pc = "start"
  /\ base' = place_edge_components
  /\ keepout_zone' = compute_keepout_zone(place_edge_components[USB])
  /\ best' = NoBest
  /\ gi' = 1
  /\ pc' = "outer"
  /\ UNCHANGED <<cxr, result, expired, config, hvars, vvars, gvars>>

\* Lines 248-264: an outer iteration whose deadline check passes (it
\* cannot once a check has failed: time.perf_counter() does not go back).
OuterIter ==
  /\ pc = "outer" /\ gi <= Len(prioritized_positions)
  /\ ~ expired
  /\ LET mc == McAt(gi)
         win == Window(mc)
     IN  IF overlap_edge(mc, base) \/ win.min_cx > win.max_cx
           THEN /\ gi' = gi + 1
                /\ UNCHANGED <<pc, cxr>>
         ELSE /\ pc' = "row"
              /\ cxr' = win.min_cx
              /\ UNCHANGED gi
  /\ UNCHANGED <<base, keepout_zone, best, result, expired, config, hvars, vvars, gvars>>

\* Lines 266-321: one row of the crystal window whose deadline check passes.
ScanOneRow ==
  /\ pc = "row"
  /\ LET mc == McAt(gi)
         win == Window(mc)
     IN  /\ best' = ScanRow(base, keepout_zone, mc, cxr, win.min_cy, win.max_cy, best)
         /\ IF cxr + GRID_STEP \div Scale > win.max_cx
              THEN /\ pc' = "outer"
                   /\ gi' = gi + 1
                   /\ UNCHANGED cxr
            ELSE /\ cxr' = cxr + GRID_STEP \div Scale
                 /\ UNCHANGED <<pc, gi>>
  /\ UNCHANGED <<base, keepout_zone, result, expired, config, vvars, gvars>>

InnerRow == ScanOneRow /\ UNCHANGED hvars

\* The row, with its accepted candidates entered in the history.
InnerRowRecorded ==
  /\ ScanOneRow
  /\ LET accepted == RowAccepted(base, keepout_zone, McAt(gi), cxr, Window(McAt(gi)))
     IN  /\ accepted_count' = accepted_count + Cardinality(accepted)
         /\ first_scored' = RecordRow(base, gi, cxr, accepted, first_scored)

\* Lines 250-251, 323-325: the deadline is found expired at the start of an
\* outer iteration.
OuterTimeout ==
  /\ pc = "outer" /\ gi <= Len(prioritized_positions)
  /\ expired' = TRUE
  /\ pc' = "done"
  /\ result' = Return(best)
  /\ UNCHANGED <<base, keepout_zone, gi, cxr, best, config, hvars, vvars, gvars>>

\* Lines 268-269: the deadline is found expired at the start of a row; the
\* inner loop breaks and the outer loop asks the generator for its next cell.
RowTimeout ==
  /\ pc = "row"
  /\ expired' = TRUE
  /\ pc' = "outer"
  /\ gi' = gi + 1
  /\ UNCHANGED <<base, keepout_zone, cxr, best, result, config, hvars, vvars, gvars>>

\* Lines 323-325: the generator is exhausted.
Exhausted ==
  /\ pc = "outer" /\ gi > Len(prioritized_positions)
  /\ pc' = "done"
  /\ result' = Return(best)
  /\ UNCHANGED <<base, keepout_zone, gi, cxr, best, expired, config, hvars, vvars, gvars>>

Next == Start \/ OuterIter \/ InnerRow \/ OuterTimeout \/ RowTimeout \/ Exhausted

Spec == InitSearch /\ [][Next]_vars

\* The search with the history of its accepted candidates kept.
NextRecorded ==
  Start \/ OuterIter \/ InnerRowRecorded \/ OuterTimeout \/ RowTimeout \/ Exhausted

SpecRecorded == InitSearch /\ [][NextRecorded]_vars

\* find_solution with line 40 or line 42 edited to zero.
ZeroRadius == [DefaultConfig EXCEPT !.PROXIMITY_RADIUS = 0]
ZeroKeepout == [DefaultConfig EXCEPT !.KEEPOUT_ZONE_DIMS = <<0, 0>>]

InitDegenerate ==
  /\ pc = "start" /\ base = NotCalled /\ keepout_zone = NotCalled
  /\ gi = 0 /\ cxr = 0 /\ best = NotCalled /\ result = NotCalled
  /\ expired = FALSE /\ config \in {ZeroRadius, ZeroKeepout}
  /\ NoHistory
  /\ given = << >> /\ vres = NotCalled /\ chk = NotCalled
  /\ GeomIdle

SpecDegenerate == InitDegenerate /\ [][NextRecorded]_vars

\* ---------------------------------------------------------------------
\* Generator harness: a caller iterates prioritized_positions() to its end.
\* gi counts the cells yielded so far.
\* ---------------------------------------------------------------------
InitGenerator ==
  /\ pc = "gen" /\ gi = 0
  /\ base = NotCalled /\ keepout_zone = NotCalled
  /\ cxr = 0 /\ best = NotCalled /\ result = NotCalled
  /\ expired = FALSE /\ config = DefaultConfig
  /\ NoHistory
  /\ given = << >> /\ vres = NotCalled /\ chk = NotCalled
  /\ GeomIdle

\* next(): the generator yields its next cell.
NextPosition ==
  /\ pc = "gen" /\ gi < Len(prioritized_positions)
  /\ gi' = gi + 1
  /\ UNCHANGED <<pc, base, keepout_zone, cxr, best, result, expired, config,
                 hvars, vvars, gvars>>

\* next(): the generator returns (StopIteration).
StopIteration ==
  /\ pc = "gen" /\ gi = Len(prioritized_positions)
  /\ pc' = "gen_done"
  /\ UNCHANGED <<gi, base, keepout_zone, cxr, best, result, expired, config,
                 hvars, vvars, gvars>>

NextGenerator == NextPosition \/ StopIteration

SpecGenerator == InitGenerator /\ [][NextGenerator]_vars

\* ---------------------------------------------------------------------
\* Claims about the search (checked under Spec)
\* ---------------------------------------------------------------------
Returned == pc = "done" /\ result # NotCalled

\* C1: however the search stops (deadline found expired at an outer
\* iteration or at a row, or enumeration exhausted), a returned placement
\* passes validate_full: overall is TRUE, so all seven rules pass.
C1_ReturnedPlacementValid ==
  (Returned /\ result.solution) =>
     LET v == validate_full(result.placement)
     IN  /\ v.overall
         /\ DOMAIN v.results = RuleNames
         /\ \A r \in RuleNames : v.results[r]

\* The search ran to exhaustion and returned a placement.
C1_Witness ==
  /\ Returned /\ result.solution
  /\ gi > Len(prioritized_positions)

Seated == pc # "start"

MirroredSeated ==
  /\ base[MB1].x = 0
  /\ base[MB2].x + base[MB2].w = BOARD_DIMS[1]
  /\ base[MB1].y = base[MB2].y
  /\ base[MB1].y = Min(Max(0, 10 * Scale), BOARD_DIMS[2] - base[MB1].h)
  /\ in_bounds(base[MB1]) /\ in_bounds(base[MB2])

UsbCentred == 2 * base[USB].x + base[USB].w = BOARD_DIMS[1]

\* C10 as stated: the mirrored connectors sit on the left and right edges
\* at the same clamped offset, the USB connector is centred horizontally on
\* the edge y == 0, and the zone the search uses starts at y == 0.
C10_UsbOnEdgeYZero ==
  Seated =>
     /\ MirroredSeated
     /\ UsbCentred
     /\ base[USB].y = 0
     /\ keepout_zone.y = 0

\* C10 as amended: the mirrored connectors sit on the left and right edges
\* at the same clamped offset, the USB connector is centred horizontally on
\* the edge y + h == H (not on y == 0), and the zone the search uses is the
\* one of the calculator's second check: it spans y from H - zone_depth
\* to H, centred on the connector.
C10_UsbOnEdgeYMax ==
  Seated =>
     /\ MirroredSeated
     /\ UsbCentred
     /\ base[USB].y # 0
     /\ base[USB].y + base[USB].h = BOARD_DIMS[2]
     /\ keepout_zone.y = BOARD_DIMS[2] - KEEPOUT_ZONE_DIMS[2]
     /\ keepout_zone.y + keepout_zone.h = BOARD_DIMS[2]
     /\ keepout_zone.w = KEEPOUT_ZONE_DIMS[1]
     /\ 2 * keepout_zone.x + keepout_zone.w = 2 * base[USB].x + base[USB].w

\* The connectors are seated and the search has gone on to use the zone.
C10_Witness ==
  /\ pc = "row"
  /\ base[USB].y + base[USB].h = BOARD_DIMS[2]
  /\ keepout_zone.y + keepout_zone.h = BOARD_DIMS[2]

\* ---------------------------------------------------------------------
\* Claims about the search and its history (checked under SpecRecorded,
\* SpecDegenerate)
\* ---------------------------------------------------------------------
\* The placement of a scored candidate.
Place(e) == Assemble(base, McAt(e.gi), XtalAt(e.cx, e.cy))

\* e is enumerated no later than f: outer cell, then row, then cell of the row.
EarlierOrSame(e, f) ==
  \/ e.gi < f.gi
  \/ e.gi = f.gi /\ e.cx < f.cx
  \/ e.gi = f.gi /\ e.cx = f.cx /\ e.cy <= f.cy

\* No candidate scored so far has a lower total than e, and none of e's total
\* comes before e.
EarliestMinimum(e) ==
  \A f \in first_scored :
     /\ ~ score_less(f, e)
     /\ ~ score_less(e, f) => EarlierOrSame(e, f)

StopReturnsEarliestMinimum ==
  Returned =>
     /\ (result = NoSolution) <=> (accepted_count = 0)
     /\ result # NoSolution =>
          \E e \in first_scored :
             /\ result.bbox_area = e.bbox_area
             /\ result.centrality_sq = e.centrality_sq
             /\ result.placement = Place(e)
             /\ EarliestMinimum(e)

NothingAcceptedAfterExpiry ==
  expired => (accepted_count' = accepted_count /\ best' = best)

\* C11: whenever find_solution stops (deadline found expired at an outer
\* iteration or at a row, or enumeration exhausted) it returns the
\* earliest-enumerated candidate of minimum score among the candidates
\* accepted before the stop, and the no-solution value exactly when none was
\* accepted; once a deadline check has failed no candidate is accepted.
C11_ReturnsEarliestMinimum ==
  [] StopReturnsEarliestMinimum /\ [][NothingAcceptedAfterExpiry]_vars

\* The deadline stopped a search that had accepted several candidates, some
\* of them with a score seen before.
C11_Witness ==
  /\ Returned /\ expired /\ result.solution
  /\ Cardinality(first_scored) >= 2
  /\ accepted_count > Cardinality(first_scored)

BestNeverWorsens ==
  (pc # "start" /\ best.found) => (best'.found /\ ~ score_less(best, best'))

\* C12: the tracked best score never increases from one step to the next and
\* a best once found is never lost; what a stop returns is the tracked best
\* at that stop, so of two runs over the same configuration the one stopped
\* later returns a score no greater, and a placement whenever the other does.
C12_LaterStopNoWorse ==
  [] (Returned => result = Return(best)) /\ [][BestNeverWorsens]_vars

\* The best has improved on a candidate accepted before it.
C12_Witness ==
  /\ pc \in {"outer", "row"} /\ best.found
  /\ \E e, f \in first_scored :
       /\ best.placement = Place(e)
       /\ score_less(e, f)
       /\ EarlierOrSame(f, e)

\* The search ran through the whole enumeration with no deadline expiry.
RanToExhaustion == Returned /\ ~ expired

\* C13 as stated: with the proximity radius set to 0, and likewise with the
\* keepout zone dimensions set to 0, find_solution run to exhaustion accepts
\* no candidate and returns the no-solution value.
C13_DegenerateNoSolution ==
  config \in {ZeroRadius, ZeroKeepout} =>
     /\ accepted_count = 0
     /\ RanToExhaustion => result = NoSolution

\* C13 as amended: with the proximity radius set to 0 no candidate is
\* accepted and every stop returns the no-solution value; with the keepout
\* zone dimensions set to 0 the zone is an empty rectangle, candidates are
\* accepted from the first microcontroller cell on, and a run to exhaustion
\* returns a placement.
C13_ZeroRadiusNoSolution ==
  /\ config = ZeroRadius =>
       /\ accepted_count = 0
       /\ Returned => result = NoSolution
  /\ (config = ZeroKeepout /\ ~ expired /\ gi > 1) =>
       /\ accepted_count > 0 /\ best.found
       /\ Returned => (result.solution /\ result = Return(best))

\* With the radius at 0 the search went through every cell and returned the
\* no-solution value.
C13_Witness ==
  /\ config = ZeroRadius
  /\ RanToExhaustion /\ gi > Len(prioritized_positions)
  /\ result = NoSolution

\* ---------------------------------------------------------------------
\* Claims about the crystal window and the optimum (checked under Spec)
\* ---------------------------------------------------------------------
\* The integer grid cells at which a crystal lies on the board.
CrystalCells ==
  {c \in (0 .. BOARD_DIMS[1] \div Scale) \X (0 .. BOARD_DIMS[2] \div Scale) :
     in_bounds(XtalAt(c[1], c[2]))}

WithinProximity(mc, xt) ==
  distance_sq(center_of(mc), center_of(xt)) <= PROXIMITY_RADIUS * PROXIMITY_RADIUS

InWindow(win, c) ==
  /\ win.min_cx <= c[1] /\ c[1] <= win.max_cx
  /\ win.min_cy <= c[2] /\ c[2] <= win.max_cy

\* C16: for every microcontroller cell whose crystal rows the search scans,
\* the window [min_cx, max_cx] x [min_cy, max_cy] contains every in-bounds
\* integer grid cell whose crystal centre lies within PROXIMITY_RADIUS of the
\* microcontroller centre, so the inner loops skip no cell the proximity rule
\* would accept.
C16_WindowCoversProximity ==
  pc = "row" =>
     \A c \in CrystalCells :
        WithinProximity(McAt(gi), XtalAt(c[1], c[2])) => InWindow(Window(McAt(gi)), c)

\* The microcontroller at an integer grid cell.
McCell(c) ==
  [x |-> c[1] * Scale, y |-> c[2] * Scale, w |-> SIZES[MC][1], h |-> SIZES[MC][2]]

\* The integer grid cells at which a microcontroller lies on the board.
McCells ==
  {c \in (0 .. BOARD_DIMS[1] \div Scale) \X (0 .. BOARD_DIMS[2] \div Scale) :
     in_bounds(McCell(c))}

\* The seated connectors with a microcontroller at cell m and a crystal at
\* cell c pass validate_full with a total strictly below the returned one
\* (or nothing was returned).  A placement that passes validate_full passes
\* its proximity rule, which is tested first.
BeatsResult(m, c) ==
  /\ WithinProximity(McCell(m), XtalAt(c[1], c[2]))
  /\ LET placement == Assemble(base, McCell(m), XtalAt(c[1], c[2]))
     IN  /\ result = NoSolution \/ score_less(compute_score(placement), result)
         /\ validate_full(placement).overall

\* C15: when find_solution runs to exhaustion, no placement of the seated
\* connectors plus a microcontroller and a crystal at in-bounds integer grid
\* cells that passes validate_full has a strictly lower total than the
\* returned placement, and if such a valid placement exists the no-solution
\* value is not returned.
C15_ExhaustiveSearchOptimal ==
  RanToExhaustion =>
     \A m \in McCells : \A c \in CrystalCells : ~ BeatsResult(m, c)

\* The search ran to exhaustion and returned a placement, and some valid
\* placement lies at a crystal cell the window of its microcontroller cell
\* leaves out.
C15_Witness ==
  /\ RanToExhaustion /\ result.solution
  /\ \E m \in McCells : \E c \in CrystalCells :
       /\ WithinProximity(McCell(m), XtalAt(c[1], c[2]))
       /\ ~ InWindow(Window(McCell(m)), c)
       /\ validate_full(Assemble(base, McCell(m), XtalAt(c[1], c[2]))).overall

\* ---------------------------------------------------------------------
\* Claims about the generator (checked under SpecGenerator)
\* ---------------------------------------------------------------------
Abs(n) == IF n < 0 THEN -n ELSE n

CentreCell == <<(BOARD_DIMS[1] \div Scale) \div 2, (BOARD_DIMS[2] \div Scale) \div 2>>

\* Chebyshev distance of the i-th yielded cell from the centre cell.
RingOf(i) ==
  Max(Abs(prioritized_positions[i][1] - CentreCell[1]),
      Abs(prioritized_positions[i][2] - CentreCell[2]))

\* The i-th cell lies on a row dy = -r or dy = +r of its ring.
OnRingRow(i) == Abs(prioritized_positions[i][2] - CentreCell[2]) = RingOf(i)

\* The cells (x, y) with 0 <= x <= W - w and 0 <= y <= H - h.
GridCells ==
  {c \in (0 .. BOARD_DIMS[1] \div Scale) \X (0 .. BOARD_DIMS[2] \div Scale) :
     /\ c[1] * Scale + SIZES[MC][1] <= BOARD_DIMS[1]
     /\ c[2] * Scale + SIZES[MC][2] <= BOARD_DIMS[2]}

\* C14: prioritized_positions yields the board-centre cell first, then cells
\* in non-decreasing ring radius 1, 2, 3, ... (Chebyshev distance from the
\* centre cell), within a ring the cells of the rows dy = -r, +r before the
\* cells of the columns dx = -r, +r without the corners; it yields no cell
\* twice, only cells with 0 <= x <= W - w and 0 <= y <= H - h, and by the
\* time it returns it has yielded every such cell.
C14_RingOrderEnumeration ==
  /\ pc \in {"gen", "gen_done"} /\ gi >= 1 =>
       /\ prioritized_positions[1] = CentreCell
       /\ prioritized_positions[gi] \in GridCells
       /\ \A j \in 1 .. gi - 1 : prioritized_positions[j] # prioritized_positions[gi]
       /\ gi >= 2 =>
            /\ RingOf(gi) >= 1
            /\ RingOf(gi) \in {RingOf(gi - 1), RingOf(gi - 1) + 1}
            /\ (RingOf(gi) = RingOf(gi - 1) /\ OnRingRow(gi)) => OnRingRow(gi - 1)
  /\ pc = "gen_done" =>
       {prioritized_positions[i] : i \in 1 .. gi} = GridCells

\* The generator has returned after yielding cells of rings cut by the board
\* edge.
C14_Witness ==
  /\ pc = "gen_done" /\ gi > 1
  /\ (CentreCell[1] + RingOf(gi)) * Scale + SIZES[MC][1] > BOARD_DIMS[1]

====
